---- MODULE Spec2Model ----
(***************************************************************************)
(* INFRAstudio: the Sequencer (src/src/core/validator.ts, lines 50-69, the *)
(* class index.ts exports from './core/sequencer') and the bridge          *)
(* MessageQueue (docs/INFRASTRUKT-technical-documentation.md, 397-410).    *)
(***************************************************************************)
EXTENDS Integers, Sequences, FiniteSets, TLC

\* ---------------------------------------------------------------- bounds
\* submitTransaction calls made in one run
MaxCalls == 3
\* largest value Date.now() reaches
MaxTime == 4
\* largest nonce a caller supplies
MaxNonce == 2

\* SequencerConfig.batchSize / maxLatency of the documented Sequencer: the
\* shipped class has neither field; the values are those the batching claims
\* are stated with.
batchSize == 2
maxLatency == 2

Senders == {"a", "b"}

\* Transaction (validator.ts 71-77): from and nonce are the fields the claims
\* read; to, data and value are never read by the class.
Transaction == [from : Senders, nonce : 1..MaxNonce]

VARIABLES
    queue,      \* Sequencer.queue: Transaction[], each entry tagged with the
                \* number of the call that pushed it (seq, a history field)
    calls,      \* one record per submitTransaction call: its argument, the
                \* time of the call, the state of its promise and its value
    now         \* Date.now()

VARIABLES
    mqueue,     \* MessageQueue.queue: Map<string, QueuedMessage>
    sendLog,    \* history: each queueMessage call's argument and returned id
    deliveries, \* history: confirmed deliveries, counted per message id
    surfaced,   \* message ids whose failure was reported to the caller
    deliveryLog \* history: message ids in the order they were confirmed

VARIABLES
    coTx,        \* the participant chains of the transaction being executed
    coPc,        \* where executeAtomicTransaction stands
    coResult,    \* what executeAtomicTransaction gave its caller
    coFailedAt,  \* history: the step that failed, if one did
    locks,       \* participants whose lock is held
    committed,   \* participants that applied the commit
    compensated, \* participants that were sent a compensating message
    rolledBack   \* participants whose compensation succeeded

VARIABLES
    fpClock,     \* time, in the unit challengePeriod is given in
    fpStatus,    \* the status of each batch posted in fraud-provable mode
    challenges   \* one record per submitChallenge call: its FraudProof, where
                 \* the call stands and what verifyFraudProof gave

VARIABLES
    config,            \* Chain.config, NoChain while no Chain exists
    status,            \* Chain.status (ChainStatus), NoChain while none exists
    deploymentOptions, \* Chain.deploymentOptions, Undefined until set
    deploying,         \* deploy calls suspended at their await
    reading,           \* getStatus calls whose promise has not settled
    statusRead,        \* what the last settled getStatus gave its caller
    lastCall,          \* history: the last constructor, deploy or
                       \* updateConfig call and its argument; turn flips
                       \* at every such call
    thrown             \* the error that call threw, "none" if it did not

seqVars == <<queue, calls, now>>

chVars == <<config, status, deploymentOptions, deploying, reading, statusRead,
            lastCall, thrown>>

fpVars == <<fpClock, fpStatus, challenges>>

coVars == <<coTx, coPc, coResult, coFailedAt, locks, committed, compensated, rolledBack>>

mqVars == <<mqueue, sendLog, deliveries, surfaced, deliveryLog>>

outsideSequencer == <<mqVars, coVars, fpVars, chVars>>

outsideQueue == <<seqVars, coVars, fpVars, chVars>>

outsideCoordinator == <<seqVars, mqVars, fpVars, chVars>>

outsideFraudProofs == <<seqVars, mqVars, coVars, chVars>>

outsideChain == <<seqVars, mqVars, coVars, fpVars>>

vars == <<seqVars, mqVars, coVars, fpVars, chVars>>

\* ------------------------------------------------------------- Sequencer

\* this.queue.push(tx)
PushHead(q, e) == <<e>> \o q

Push(q, e) == Append(q, e)

\* processBatch(): 'tx_hash_' + Date.now(); reads and writes no field
ProcessBatch(t) == [kind |-> "tx_hash", stamp |-> t]

\* submitTransaction(tx), up to the point its promise is handed to the
\* caller: the push and the whole body of processBatch run synchronously.
SubmitTransaction(tx) ==
    /\ Len(calls) < MaxCalls
    /\ LET n == Len(calls) + 1
       IN /\ queue' = Push(queue, [from |-> tx.from, nonce |-> tx.nonce, seq |-> n])
          /\ calls' = Append(calls, [tx |-> tx, at |-> now, pc |-> "pending",
                                     result |-> ProcessBatch(now)])
    /\ UNCHANGED now
    /\ UNCHANGED outsideSequencer

\* The promise of an async function settles on a later microtask, and
\* microtasks run first in, first out: the oldest outstanding call settles.
Settle ==
    /\ \E i \in DOMAIN calls :
          /\ calls[i].pc = "pending"
          /\ \A j \in 1..(i - 1) : calls[j].pc # "pending"
          /\ calls' = [calls EXCEPT ![i].pc = "fulfilled"]
    /\ UNCHANGED <<queue, now>>
    /\ UNCHANGED outsideSequencer

\* Date.now() advances
Tick ==
    /\ now < MaxTime
    /\ now' = now + 1
    /\ UNCHANGED <<queue, calls>>
    /\ UNCHANGED outsideSequencer

Submit == \E tx \in Transaction : SubmitTransaction(tx)

\* ---------------------------------------------------------- MessageQueue
\* queueMessage calls made in one run
MaxSends == 3

\* private readonly maxRetries = 3
maxRetriesOff == 3 + 1

maxRetries == 3

Payloads == {"p", "q"}

Timestamps == {1, 2}

\* BridgeMessage: proof, gasLimit and deadline are carried and never read by
\* the queue. The messages sent: two logical messages on route (A, X), each
\* under two timestamps, and one on route (A, Y).
BridgeMessage ==
    {m \in [sourceChain : {"A"}, targetChain : {"X", "Y"}, payload : Payloads,
             nonce : {1}, timestamp : Timestamps] :
        m.targetChain = "Y" => (m.payload = "p" /\ m.timestamp = 1)}

\* The logical message: what the deterministic id is a hash of.
Logical(m) == <<m.sourceChain, m.targetChain, m.payload, m.nonce>>

\* generateMessageId(message): hash(sourceChain, targetChain, payload, nonce),
\* a collision-free hash being the tuple it hashes.
GenerateMessageId(m) == <<"id", Logical(m)>>

\* An id over the whole message, metadata.timestamp included.
ContentId(m) == <<"id", Logical(m), m.timestamp>>

\* persistMessage(messageId, message): a new entry starts pending with no
\* retry made; an id already held is left as it is.
PersistMessage(id, m) ==
    IF id \in DOMAIN mqueue
    THEN mqueue
    ELSE [k \in DOMAIN mqueue \cup {id} |->
            IF k = id THEN [message |-> m, retryCount |-> 0, status |-> "pending"]
                      ELSE mqueue[k]]

QueueMessageByContent(m) ==
    /\ Len(sendLog) < MaxSends
    /\ LET messageId == ContentId(m)
       IN /\ mqueue' = PersistMessage(messageId, m)
          /\ sendLog' = Append(sendLog, [message |-> m, id |-> messageId])
          /\ deliveries' = [k \in DOMAIN mqueue' |->
                              IF k \in DOMAIN deliveries THEN deliveries[k] ELSE 0]
    /\ UNCHANGED <<surfaced, deliveryLog>>
    /\ UNCHANGED outsideQueue

\* queueMessage(message): the id is computed, the message persisted under it,
\* the id returned.
QueueMessage(m) ==
    /\ Len(sendLog) < MaxSends
    /\ LET messageId == GenerateMessageId(m)
       IN /\ mqueue' = PersistMessage(messageId, m)
          /\ sendLog' = Append(sendLog, [message |-> m, id |-> messageId])
          /\ deliveries' = [k \in DOMAIN mqueue' |->
                              IF k \in DOMAIN deliveries THEN deliveries[k] ELSE 0]
    /\ UNCHANGED <<surfaced, deliveryLog>>
    /\ UNCHANGED outsideQueue

\* The (sourceChain, targetChain) pair of a queued message.
Route(id) == <<mqueue[id].message.sourceChain, mqueue[id].message.targetChain>>

\* The place of a message in submission order: its first queueMessage call.
FirstSent(id) ==
    CHOOSE i \in DOMAIN sendLog :
        /\ sendLog[i].id = id
        /\ \A j \in 1..(i - 1) : sendLog[j].id # id

Terminal(id) == mqueue[id].status \in {"confirmed", "failed"}

\* A delivery attempt that takes any pending message, whatever its route holds.
TransmitUnordered(id) ==
    /\ mqueue[id].status = "pending"
    /\ mqueue' = [mqueue EXCEPT ![id].status = "sent"]
    /\ UNCHANGED <<sendLog, deliveries, surfaced, deliveryLog>>
    /\ UNCHANGED outsideQueue

\* A delivery attempt leaves for the target chain. Delivery is serialized
\* per route: a message waits until every message submitted before it on
\* its route is confirmed or failed.
Transmit(id) ==
    /\ mqueue[id].status = "pending"
    /\ \A other \in DOMAIN mqueue :
          (Route(other) = Route(id) /\ FirstSent(other) < FirstSent(id))
              => Terminal(other)
    /\ mqueue' = [mqueue EXCEPT ![id].status = "sent"]
    /\ UNCHANGED <<sendLog, deliveries, surfaced, deliveryLog>>
    /\ UNCHANGED outsideQueue

\* The target chain acknowledges the attempt.
Confirm(id) ==
    /\ mqueue[id].status = "sent"
    /\ mqueue' = [mqueue EXCEPT ![id].status = "confirmed"]
    /\ deliveries' = [deliveries EXCEPT ![id] = @ + 1]
    /\ deliveryLog' = Append(deliveryLog, id)
    /\ UNCHANGED <<sendLog, surfaced>>
    /\ UNCHANGED outsideQueue

\* retryMessage(messageId): another attempt while retries remain; with none
\* left the message fails and the failure is reported.
RetryMessage(id) ==
    /\ mqueue[id].status = "sent"
    /\ IF mqueue[id].retryCount < maxRetries
       THEN /\ mqueue' = [mqueue EXCEPT ![id].retryCount = @ + 1,
                                        ![id].status = "pending"]
            /\ UNCHANGED surfaced
       ELSE /\ mqueue' = [mqueue EXCEPT ![id].status = "failed"]
            /\ surfaced' = surfaced \cup {id}
    /\ UNCHANGED <<sendLog, deliveries, deliveryLog>>
    /\ UNCHANGED outsideQueue

Send == \E m \in BridgeMessage : QueueMessage(m)

Deliver == \E id \in DOMAIN mqueue : Transmit(id)

Acknowledge == \E id \in DOMAIN mqueue : Confirm(id)

\* The attempt is lost or times out.
Expire == \E id \in DOMAIN mqueue : RetryMessage(id)

\* ------------------------------------------- AtomicTransactionCoordinator
\* AtomicTransactionCoordinator.participants
Participants == {"c1", "c2", "c3"}

\* CrossChainTransaction: a transaction spans some of the participant chains
CrossChainTransaction == (SUBSET Participants) \ {{}}

\* executeAtomicTransaction(tx) is called: prepareTransaction starts with
\* acquireLocks(tx).
ExecuteAtomicTransaction(tx) ==
    /\ coPc = "idle"
    /\ coTx' = tx
    /\ coPc' = "acquireLocks"
    /\ UNCHANGED <<coResult, coFailedAt, locks, committed, compensated, rolledBack>>
    /\ UNCHANGED outsideCoordinator

\* acquireLocks(tx): one participant's exclusive lock is taken.
AcquireLock(p) ==
    /\ coPc = "acquireLocks"
    /\ p \in coTx \ locks
    /\ locks' = locks \cup {p}
    /\ UNCHANGED <<coPc, coResult, coFailedAt, committed, compensated, rolledBack>>
    /\ UNCHANGED coTx
    /\ UNCHANGED outsideCoordinator

\* acquireLocks(tx) fails at a participant: it gives back the locks it took
\* and throws. prepareTransaction catches nothing, so the call rejects.
AcquireLocksFails ==
    /\ coPc = "acquireLocks"
    /\ locks # coTx
    /\ locks' = {}
    /\ coPc' = "done"
    /\ coResult' = "threw"
    /\ coFailedAt' = "acquireLocks"
    /\ UNCHANGED <<committed, compensated, rolledBack>>
    /\ UNCHANGED coTx
    /\ UNCHANGED outsideCoordinator

\* const locks = await this.acquireLocks(tx): every lock is held, and
\* prepareTransaction goes on to generatePreparationProof(tx).
PrepareLocksHeld ==
    /\ coPc = "acquireLocks"
    /\ locks = coTx
    /\ coPc' = "generatePreparationProof"
    /\ UNCHANGED <<coResult, coFailedAt, locks, committed, compensated, rolledBack>>
    /\ UNCHANGED coTx
    /\ UNCHANGED outsideCoordinator

\* generatePreparationProof(tx) throws: prepareTransaction has no catch and
\* no finally, so the call rejects with `locks` never looked at again.
PrepareProofFails ==
    /\ coPc = "generatePreparationProof"
    /\ coPc' = "done"
    /\ coResult' = "threw"
    /\ coFailedAt' = "generatePreparationProof"
    /\ UNCHANGED <<locks, committed, compensated, rolledBack>>
    /\ UNCHANGED coTx
    /\ UNCHANGED outsideCoordinator

\* prepareTransaction returns { success: true, proof }; success is never
\* false, so executeAtomicTransaction goes on to commitTransaction.
PrepareSucceeds ==
    /\ coPc = "generatePreparationProof"
    /\ coPc' = "broadcastCommit"
    /\ UNCHANGED <<coResult, coFailedAt, locks, committed, compensated, rolledBack>>
    /\ UNCHANGED coTx
    /\ UNCHANGED outsideCoordinator

\* broadcastCommit(tx, proof): one participant receives the commit message
\* and applies it.
CommitAt(p) ==
    /\ coPc = "broadcastCommit"
    /\ p \in coTx \ committed
    /\ committed' = committed \cup {p}
    /\ UNCHANGED <<coPc, coResult, coFailedAt, locks, compensated, rolledBack>>
    /\ UNCHANGED coTx
    /\ UNCHANGED outsideCoordinator

\* await this.broadcastCommit(tx, proof); return true: every participant
\* committed, which releases the locks.
CommitSucceeds ==
    /\ coPc = "broadcastCommit"
    /\ committed = coTx
    /\ locks' = {}
    /\ coPc' = "done"
    /\ coResult' = "true"
    /\ UNCHANGED <<coFailedAt, committed, compensated, rolledBack>>
    /\ UNCHANGED coTx
    /\ UNCHANGED outsideCoordinator

\* A catch that answers false without calling rollback.
CommitCatchNoRollback ==
    /\ coPc = "broadcastCommit"
    /\ committed # coTx
    /\ locks' = {}
    /\ coPc' = "done"
    /\ coResult' = "false"
    /\ coFailedAt' = "broadcastCommit"
    /\ UNCHANGED <<committed, compensated, rolledBack>>
    /\ UNCHANGED coTx
    /\ UNCHANGED outsideCoordinator

\* catch (error) { await this.rollback(tx); ... }: delivery to a participant
\* failed, or was not acknowledged within timeoutMs.
CommitCatch ==
    /\ coPc = "broadcastCommit"
    /\ committed # coTx
    /\ coPc' = "rollback"
    /\ coFailedAt' = "broadcastCommit"
    /\ UNCHANGED <<coResult, locks, committed, compensated, rolledBack>>
    /\ UNCHANGED coTx
    /\ UNCHANGED outsideCoordinator

\* rollback(tx): a participant that committed is sent a compensating
\* message, which it applies or not.
Compensate(p, applied) ==
    /\ coPc = "rollback"
    /\ p \in committed \ compensated
    /\ compensated' = compensated \cup {p}
    /\ rolledBack' = IF applied THEN rolledBack \cup {p} ELSE rolledBack
    /\ UNCHANGED <<coPc, coResult, coFailedAt, locks, committed>>
    /\ UNCHANGED coTx
    /\ UNCHANGED outsideCoordinator

\* rollback(tx) is through: the locks are released; it returns when every
\* compensation was applied (commitTransaction then returns false) and
\* throws the reconciliation-required error when one was not.
RollbackEnds ==
    /\ coPc = "rollback"
    /\ compensated = committed
    /\ locks' = {}
    /\ coPc' = "done"
    /\ coResult' = IF rolledBack = committed THEN "false" ELSE "reconciliationRequired"
    /\ UNCHANGED <<coFailedAt, committed, compensated, rolledBack>>
    /\ UNCHANGED coTx
    /\ UNCHANGED outsideCoordinator

Execute == \E tx \in CrossChainTransaction : ExecuteAtomicTransaction(tx)

AcquireLocks == \E p \in Participants : AcquireLock(p)

BroadcastCommit == \E p \in Participants : CommitAt(p)

Rollback == \E p \in Participants, applied \in BOOLEAN : Compensate(p, applied)

\* ------------------------------------------------------- FraudProofSystem
\* submitChallenge calls made in one run
MaxChallenges == 2
\* largest value the clock reaches
MaxFpTime == 4

\* FraudProofSystem.challengePeriod
challengePeriod == 2

\* FraudProof.blockNumber: the batches posted
FpBatches == {1, 2}

\* Batch b is posted at time b - 1.
PostedAt(b) == b - 1

\* FraudProof: the batch it challenges, and whether its witness does show an
\* invalid transition from preState to postState.
FraudProof == [blockNumber : FpBatches, invalidTransition : BOOLEAN]

WindowOpen(b) ==
    /\ PostedAt(b) <= fpClock
    /\ fpClock - PostedAt(b) < challengePeriod

\* Challenges accepted for batch b and not yet processed
InFlight(b) ==
    {i \in DOMAIN challenges :
        challenges[i].proof.blockNumber = b /\ challenges[i].pc \in {"verify", "process"}}

\* await this.validateChallenge(proof): a challenge is accepted while its
\* batch is provisional and inside its challenge window, and rejected after.
SubmitChallenge(proof) ==
    /\ Len(challenges) < MaxChallenges
    /\ LET accepted == fpStatus[proof.blockNumber] = "provisional"
                          /\ WindowOpen(proof.blockNumber)
       IN challenges' = Append(challenges,
              [proof |-> proof, at |-> fpClock, result |-> "none",
               pc |-> IF accepted THEN "verify" ELSE "rejected"])
    /\ UNCHANGED <<fpClock, fpStatus>>
    /\ UNCHANGED outsideFraudProofs

\* verifyFraudProof(proof): the transition is reconstructed and the verifier
\* says whether it is invalid as the proof states.
VerifyFraudProof(i) ==
    /\ challenges[i].pc = "verify"
    /\ challenges' = [challenges EXCEPT
                        ![i].result = IF challenges[i].proof.invalidTransition
                                      THEN "verified" ELSE "unfounded",
                        ![i].pc = "process"]
    /\ UNCHANGED <<fpClock, fpStatus>>
    /\ UNCHANGED outsideFraudProofs

\* processChallengeResult(result): a verified challenge marks its batch
\* failed; an unfounded one changes nothing.
ProcessChallengeResult(b, result) ==
    IF result = "verified" /\ fpStatus[b] = "provisional"
    THEN [fpStatus EXCEPT ![b] = "failed"]
    ELSE fpStatus

\* A submitChallenge that returns the verification result unprocessed.
ReturnResultUnprocessed(i) ==
    /\ challenges[i].pc = "process"
    /\ challenges' = [challenges EXCEPT ![i].pc = "done"]
    /\ UNCHANGED <<fpClock, fpStatus>>
    /\ UNCHANGED outsideFraudProofs

\* return this.processChallengeResult(result)
ReturnProcessedResult(i) ==
    /\ challenges[i].pc = "process"
    /\ fpStatus' = ProcessChallengeResult(challenges[i].proof.blockNumber,
                                          challenges[i].result)
    /\ challenges' = [challenges EXCEPT ![i].pc = "done"]
    /\ UNCHANGED fpClock
    /\ UNCHANGED outsideFraudProofs

\* challengePeriod has elapsed for a provisional batch with no accepted
\* challenge still being verified: it is finalized.
Finalize(b) ==
    /\ fpStatus[b] = "provisional"
    /\ fpClock - PostedAt(b) >= challengePeriod
    /\ InFlight(b) = {}
    /\ fpStatus' = [fpStatus EXCEPT ![b] = "finalized"]
    /\ UNCHANGED <<fpClock, challenges>>
    /\ UNCHANGED outsideFraudProofs

FpTick ==
    /\ fpClock < MaxFpTime
    /\ fpClock' = fpClock + 1
    /\ UNCHANGED <<fpStatus, challenges>>
    /\ UNCHANGED outsideFraudProofs

Challenge == \E proof \in FraudProof : SubmitChallenge(proof)

Verify == \E i \in DOMAIN challenges : VerifyFraudProof(i)

Process == \E i \in DOMAIN challenges : ReturnProcessedResult(i)

AutoFinalize == \E b \in FpBatches : Finalize(b)

\* ------------------------------------------------------------------ Chain
\* deploy calls suspended at once
MaxDeploys == 2
\* getStatus calls unsettled at once
MaxReads == 1

NoChain == [chain |-> "none"]

Undefined == [value |-> "undefined"]

\* The values a caller passes. A name is given by its length; blockTime is
\* in tenths of a second (1 is 0.1 s, 600 is 60 s). features and
\* consensus.algorithm are always well typed and left out.
Names == {0, 1, 50, 51}

ExecutionLayers == {"ZK", "Optimistic", "Plasma"}

BaseChains == {"Ethereum", "Solana", "Binance", "Polygon"}

SequencerTypes == {"Decentralized", "Centralized", "Hybrid", "Solo"}

TpsValues == {999, 1000, 100000, 100001}

BlockTimes == {0, 1, 600, 601}

ValidatorCounts == {0, 1, 1000, 1001}

Consensus == [blockTime : BlockTimes, validators : ValidatorCounts]

ChainConfig ==
    [name : Names, executionLayer : ExecutionLayers, baseChain : BaseChains,
     sequencer : SequencerTypes, tps : TpsValues, consensus : Consensus]

\* The configuration of the example usage (name 'MyL2Chain', blockTime 2)
ExampleConfig ==
    [name |-> 9, executionLayer |-> "ZK", baseChain |-> "Ethereum",
     sequencer |-> "Decentralized", tps |-> 50000,
     consensus |-> [blockTime |-> 20, validators |-> 100]]

\* The configurations a Chain that is then deployed and updated is built from
DeployedConfigs ==
    {ExampleConfig,
     [ExampleConfig EXCEPT !.tps = 999],
     [name |-> 1, executionLayer |-> "Optimistic", baseChain |-> "Solana",
      sequencer |-> "Hybrid", tps |-> 1000,
      consensus |-> [blockTime |-> 1, validators |-> 1]]}

ConfigKeys == {"name", "executionLayer", "baseChain", "sequencer", "tps", "consensus"}

\* Partial<ChainConfig>: the updates a caller passes, each a function from
\* the top-level keys it sets. A consensus update is a whole object.
PartialConfigs ==
    {<<>>}
    \cup {[k \in {"name"} |-> v] : v \in {0, 50}}
    \cup {[k \in {"tps"} |-> v] : v \in {999, 100000}}
    \cup {[k \in {"executionLayer"} |-> v] : v \in {"Optimistic", "Plasma"}}
    \cup {[k \in {"consensus"} |-> v] :
            v \in {[blockTime |-> 1, validators |-> 1],
                   [blockTime |-> 601, validators |-> 1000]}}
    \cup {[k \in {"name", "tps"} |-> IF k = "name" THEN 50 ELSE 100001]}

\* DeploymentOptions as passed at run time; a boolean is "true" or "false".
DeploymentOptions ==
    [environment : {"testnet", "mainnet", "devnet"},
     autoScale : {"true", "false", "yes"},
     monitoring : {"true", "1"}]

IsBoolean(v) == v \in {"true", "false"}

\* chainConfigSchema with tps bounded by max alone.
chainConfigSchemaNoTpsMin(c) ==
    /\ c.name >= 1 /\ c.name <= 50
    /\ c.executionLayer \in {"ZK", "Optimistic"}
    /\ c.baseChain \in {"Ethereum", "Solana", "Binance"}
    /\ c.sequencer \in {"Decentralized", "Centralized", "Hybrid"}
    /\ c.tps <= 100000
    /\ c.consensus.blockTime >= 1 /\ c.consensus.blockTime <= 600
    /\ c.consensus.validators >= 1 /\ c.consensus.validators <= 1000

\* chainConfigSchema.parse(config) does not throw. Every key is required.
chainConfigSchema(c) ==
    /\ DOMAIN c = ConfigKeys
    /\ c.name >= 1 /\ c.name <= 50
    /\ c.executionLayer \in {"ZK", "Optimistic"}
    /\ c.baseChain \in {"Ethereum", "Solana", "Binance"}
    /\ c.sequencer \in {"Decentralized", "Centralized", "Hybrid"}
    /\ c.tps >= 1000 /\ c.tps <= 100000
    /\ c.consensus.blockTime >= 1 /\ c.consensus.blockTime <= 600
    /\ c.consensus.validators >= 1 /\ c.consensus.validators <= 1000

deploymentOptionsSchema(o) ==
    /\ o.environment \in {"testnet", "mainnet"}
    /\ IsBoolean(o.autoScale)
    /\ IsBoolean(o.monitoring)

validateChainConfig(c) == chainConfigSchema(c)

validateDeploymentOptions(o) == deploymentOptionsSchema(o)

\* { ...this.config, ...newConfig }
Merge(c, newConfig) ==
    [k \in ConfigKeys |-> IF k \in DOMAIN newConfig THEN newConfig[k] ELSE c[k]]

\* new Chain(config): the one Chain of a run; a constructor that throws
\* leaves no object to call.
Construct(c) ==
    /\ lastCall.op = "none"
    /\ lastCall' = [op |-> "constructor", arg |-> c, turn |-> 1 - lastCall.turn]
    /\ IF ~validateChainConfig(c)
       THEN /\ thrown' = "Invalid chain configuration"
            /\ UNCHANGED <<config, status>>
       ELSE /\ thrown' = "none"
            /\ config' = c
            /\ status' = [status |-> "inactive", blockHeight |-> 0, tps |-> 0,
                          latency |-> 0, uptime |-> 0]
    /\ UNCHANGED <<deploymentOptions, deploying, reading, statusRead>>
    /\ UNCHANGED outsideChain

\* A deploy that stores the options and the status before it validates.
DeployAssignsFirst(options) ==
    /\ config # NoChain
    /\ deploying < MaxDeploys
    /\ lastCall' = [op |-> "deploy", arg |-> options, turn |-> 1 - lastCall.turn]
    /\ deploymentOptions' = options
    /\ status' = [status EXCEPT !.status = "deploying"]
    /\ IF ~validateDeploymentOptions(options)
       THEN /\ thrown' = "Invalid deployment options"
            /\ UNCHANGED deploying
       ELSE /\ thrown' = "none"
            /\ deploying' = deploying + 1
    /\ UNCHANGED <<config, reading, statusRead>>
    /\ UNCHANGED outsideChain

\* deploy(options), up to its await
Deploy(options) ==
    /\ config # NoChain
    /\ deploying < MaxDeploys
    /\ lastCall' = [op |-> "deploy", arg |-> options, turn |-> 1 - lastCall.turn]
    /\ IF ~validateDeploymentOptions(options)
       THEN /\ thrown' = "Invalid deployment options"
            /\ UNCHANGED <<deploymentOptions, status, deploying>>
       ELSE /\ thrown' = "none"
            /\ deploymentOptions' = options
            /\ status' = [status EXCEPT !.status = "deploying"]
            /\ deploying' = deploying + 1
    /\ UNCHANGED <<config, reading, statusRead>>
    /\ UNCHANGED outsideChain

\* deploy, after its await: the 2000 ms timer of one suspended call fired.
\* The awaited promise cannot reject, so the catch branch never runs.
DeployCompletes ==
    /\ deploying > 0
    /\ status' = [status EXCEPT !.status = "active"]
    /\ deploying' = deploying - 1
    /\ UNCHANGED <<config, deploymentOptions, reading, statusRead, lastCall, thrown>>
    /\ UNCHANGED outsideChain

\* getStatus() is called
GetStatus ==
    /\ config # NoChain
    /\ reading < MaxReads
    /\ reading' = reading + 1
    /\ UNCHANGED <<config, status, deploymentOptions, deploying, statusRead,
                   lastCall, thrown>>
    /\ UNCHANGED outsideChain

\* A getStatus whose promise settles only when no deploy is suspended.
GetStatusAfterDeploys ==
    /\ reading > 0
    /\ deploying = 0
    /\ reading' = reading - 1
    /\ statusRead' = status
    /\ UNCHANGED <<config, status, deploymentOptions, deploying, lastCall, thrown>>
    /\ UNCHANGED outsideChain

\* getStatus's promise settles with this.status
GetStatusReturns ==
    /\ reading > 0
    /\ reading' = reading - 1
    /\ statusRead' = status
    /\ UNCHANGED <<config, status, deploymentOptions, deploying, lastCall, thrown>>
    /\ UNCHANGED outsideChain

\* getConfig()
getConfig == config

\* An updateConfig that assigns the merged config before it validates.
UpdateConfigAssignsFirst(newConfig) ==
    /\ config # NoChain
    /\ lastCall' = [op |-> "updateConfig", arg |-> newConfig, turn |-> 1 - lastCall.turn]
    /\ config' = Merge(config, newConfig)
    /\ thrown' = IF ~validateChainConfig(Merge(config, newConfig))
                 THEN "Invalid configuration update" ELSE "none"
    /\ UNCHANGED <<status, deploymentOptions, deploying, reading, statusRead>>
    /\ UNCHANGED outsideChain

\* updateConfig(newConfig)
UpdateConfig(newConfig) ==
    /\ config # NoChain
    /\ lastCall' = [op |-> "updateConfig", arg |-> newConfig, turn |-> 1 - lastCall.turn]
    /\ LET updatedConfig == Merge(config, newConfig)
       IN IF ~validateChainConfig(updatedConfig)
          THEN /\ thrown' = "Invalid configuration update"
               /\ UNCHANGED config
          ELSE /\ thrown' = "none"
               /\ config' = updatedConfig
    /\ UNCHANGED <<status, deploymentOptions, deploying, reading, statusRead>>
    /\ UNCHANGED outsideChain

NewChain == \E c \in DeployedConfigs : Construct(c)

NewChainOfAny == \E c \in ChainConfig : Construct(c)

DeployCall == \E options \in DeploymentOptions : Deploy(options)

UpdateCall == \E newConfig \in PartialConfigs : UpdateConfig(newConfig)

\* ---------------------------------------------------------- specifications
Init ==
    /\ queue = <<>>
    /\ calls = <<>>
    /\ now = 0
    /\ mqueue = <<>>
    /\ sendLog = <<>>
    /\ deliveries = <<>>
    /\ surfaced = {}
    /\ deliveryLog = <<>>
    /\ coTx = {}
    /\ coPc = "idle"
    /\ coResult = "none"
    /\ coFailedAt = "none"
    /\ locks = {}
    /\ committed = {}
    /\ compensated = {}
    /\ rolledBack = {}
    /\ fpClock = 0
    /\ fpStatus = [b \in FpBatches |-> "provisional"]
    /\ challenges = <<>>
    /\ config = NoChain
    /\ status = NoChain
    /\ deploymentOptions = Undefined
    /\ deploying = 0
    /\ reading = 0
    /\ statusRead = Undefined
    /\ lastCall = [op |-> "none", arg |-> Undefined, turn |-> 0]
    /\ thrown = "none"

Next == Submit \/ Settle \/ Tick

Spec == Init /\ [][Next]_vars

\* The event loop runs every queued microtask and the clock does not stop.
FairSpec == Spec /\ WF_vars(Settle) /\ WF_vars(Tick)

MqNext == Send \/ Deliver \/ Acknowledge \/ Expire

MqSpec == Init /\ [][MqNext]_vars

CoNext ==
    \/ Execute
    \/ AcquireLocks
    \/ AcquireLocksFails
    \/ PrepareLocksHeld
    \/ PrepareProofFails
    \/ PrepareSucceeds
    \/ BroadcastCommit
    \/ CommitSucceeds
    \/ CommitCatch
    \/ Rollback
    \/ RollbackEnds

CoSpec == Init /\ [][CoNext]_vars

ChainNext ==
    \/ NewChain
    \/ DeployCall
    \/ DeployCompletes
    \/ GetStatus
    \/ GetStatusReturns
    \/ UpdateCall

ChainSpec == Init /\ [][ChainNext]_vars

\* The constructor alone, over every configuration
CtorSpec == Init /\ [][NewChainOfAny]_vars

FpNext == Challenge \/ Verify \/ Process \/ AutoFinalize \/ FpTick

\* Time passes, every awaited step of a challenge completes, and the
\* finalization timer fires.
FpSpec ==
    /\ Init
    /\ [][FpNext]_vars
    /\ WF_vars(FpTick)
    /\ WF_vars(Verify)
    /\ WF_vars(Process)
    /\ WF_vars(AutoFinalize)

\* ------------------------------------------------------- derived notions
Queued(i) == \E k \in DOMAIN queue : queue[k].seq = i

Age(i) == now - calls[i].at

OldestAge == IF queue = <<>> THEN 0 ELSE Age(Head(queue).seq)

Outstanding == {i \in DOMAIN calls : calls[i].pc = "pending"}

\* ------------------------------------------------------------------ claims

\* C1: a transaction whose nonce duplicates, or is out of order with, a nonce
\* already admitted for its sender is never queued: per sender, the nonces in
\* the queue are strictly increasing in queue order.
C1_NoncesIncreasePerSender ==
    \A i, j \in DOMAIN queue :
        (i < j /\ queue[i].from = queue[j].from) => queue[i].nonce < queue[j].nonce

\* C2: a submit that leaves the queue below batchSize with its oldest
\* transaction no older than maxLatency does not process a batch: the call
\* is not answered with the value of processBatch.
C2_NoCutBelowTriggers ==
    [][(Len(calls') = Len(calls) + 1
          /\ Len(queue') < batchSize
          /\ OldestAge' <= maxLatency)
         => calls'[Len(calls')].result.kind # "tx_hash"]_vars

\* C3: a single transaction that is admitted and followed by no other is,
\* once older than maxLatency, eventually cut out of the queue.
C3_LatencyCutHappens ==
    (Len(calls) = 1 /\ Queued(1) /\ Age(1) > maxLatency)
        ~> (~Queued(1) \/ Len(calls) > 1)

C6_BatchedLeavesQueue ==
    \A i \in DOMAIN calls : calls[i].result.kind = "tx_hash" => ~Queued(i)

\* C7: batch ids are a counter: each processed batch's id is the previous
\* one plus one, so no id is used twice.
C7_BatchIdsCount ==
    \A i \in DOMAIN calls :
        i > 1 => calls[i].result.stamp = calls[i - 1].result.stamp + 1

\* C9: sending the same logical message again returns the same id, leaves
\* one queue entry for it, and it is confirmed delivered at most once.
C9_SendIdempotent ==
    /\ \A i, j \in DOMAIN sendLog :
          Logical(sendLog[i].message) = Logical(sendLog[j].message)
              => sendLog[i].id = sendLog[j].id
    /\ \A i \in DOMAIN sendLog :
          Cardinality({id \in DOMAIN mqueue :
                          Logical(mqueue[id].message) = Logical(sendLog[i].message)}) = 1
    /\ \A id \in DOMAIN mqueue : deliveries[id] <= 1

\* C9 witness: one logical message was sent twice, under different
\* timestamps, and has been confirmed.
C9_Witness ==
    \E i, j \in DOMAIN sendLog :
        /\ i < j
        /\ Logical(sendLog[i].message) = Logical(sendLog[j].message)
        /\ sendLog[i].message.timestamp # sendLog[j].message.timestamp
        /\ mqueue[sendLog[i].id].status = "confirmed"
        /\ deliveries[sendLog[i].id] = 1

\* C10: retryCount never exceeds 3; a failed message has used all 3 retries
\* and its failure was reported; and a failed message stays failed, with no
\* further retry, whatever is done next.
C10_RetriesBounded ==
    /\ [](\A id \in DOMAIN mqueue :
            /\ mqueue[id].retryCount <= 3
            /\ mqueue[id].status = "failed"
                 => (mqueue[id].retryCount = 3 /\ id \in surfaced))
    /\ [][\A id \in DOMAIN mqueue :
            mqueue[id].status = "failed"
                => (id \in DOMAIN mqueue' /\ mqueue'[id] = mqueue[id])]_vars

\* C10 witness: a message has failed after 3 retries and was sent again.
C10_Witness ==
    \E i, j \in DOMAIN sendLog :
        /\ i < j
        /\ sendLog[i].id = sendLog[j].id
        /\ mqueue[sendLog[i].id].status = "failed"
        /\ mqueue[sendLog[i].id].retryCount = 3

\* C11: messages of one (sourceChain, targetChain) route are confirmed in the
\* order they were submitted, whatever happens on other routes, and a later
\* message of a route is not attempted while an earlier one is still pending
\* or being retried.
C11_RouteOrderKept ==
    /\ \A i, j \in DOMAIN deliveryLog :
          (i < j /\ Route(deliveryLog[i]) = Route(deliveryLog[j]))
              => FirstSent(deliveryLog[i]) < FirstSent(deliveryLog[j])
    /\ \A a, b \in DOMAIN mqueue :
          (Route(a) = Route(b) /\ FirstSent(a) < FirstSent(b)
             /\ mqueue[b].status \in {"sent", "confirmed"})
              => Terminal(a)

\* C11 witness: two messages of one route are both confirmed, the earlier
\* one after a retry, and a message of the other route was confirmed
\* between them.
C11_Witness ==
    /\ Len(deliveryLog) = 3
    /\ Route(deliveryLog[1]) = Route(deliveryLog[3])
    /\ Route(deliveryLog[2]) # Route(deliveryLog[1])
    /\ mqueue[deliveryLog[1]].retryCount > 0
    /\ FirstSent(deliveryLog[2]) < FirstSent(deliveryLog[1])

\* C12: when lock acquisition or preparation-proof generation fails, the
\* call reports failure, no participant has committed, and nothing of the
\* prepare is left outstanding: no lock is still held.
C12_PrepareFailureAborts ==
    (coPc = "done" /\ coFailedAt \in {"acquireLocks", "generatePreparationProof"})
        => /\ coResult \in {"false", "threw"}
           /\ committed = {}
           /\ locks = {}

\* C13: when the commit broadcast fails after all prepares succeeded, every
\* participant that committed was sent a compensating message, and the call
\* ends in the reconciliation-required error exactly when a compensation
\* was not applied, in false otherwise.
C13_CommitFailureRollsBack ==
    (coPc = "done" /\ coFailedAt = "broadcastCommit")
        => /\ committed \subseteq compensated
           /\ rolledBack # committed => coResult = "reconciliationRequired"
           /\ rolledBack = committed => coResult = "false"

\* C13 witness: the broadcast failed after two participants committed, both
\* were sent a compensation and one did not apply it.
C13_Witness ==
    /\ coPc = "done"
    /\ coFailedAt = "broadcastCommit"
    /\ Cardinality(committed) = 2
    /\ compensated = committed
    /\ Cardinality(rolledBack) = 1
    /\ coResult = "reconciliationRequired"

\* C14: once executeAtomicTransaction has ended, on any path, no lock of
\* the transaction is still held.
C14_NoLockAfterEnd == coPc = "done" => locks = {}

\* C15: a batch whose challenges were all rejected or unfounded is eventually
\* finalized, and not before challengePeriod has elapsed; a batch with an
\* accepted and verified challenge is marked failed, stays failed and is
\* never finalized.
C15_ChallengeWindow ==
    /\ [](\A i \in DOMAIN challenges :
            (challenges[i].pc = "done" /\ challenges[i].result = "verified")
                => fpStatus[challenges[i].proof.blockNumber] = "failed")
    /\ [](\A b \in FpBatches :
            fpStatus[b] = "finalized"
                => /\ fpClock - PostedAt(b) >= challengePeriod
                   /\ \A i \in DOMAIN challenges :
                         challenges[i].proof.blockNumber = b
                             => challenges[i].result # "verified")
    /\ [][\A b \in FpBatches :
            fpStatus[b] # "provisional" => fpStatus'[b] = fpStatus[b]]_vars
    /\ \A b \in FpBatches :
          (fpStatus[b] = "provisional") ~> (fpStatus[b] \in {"finalized", "failed"})
    /\ \A b \in FpBatches :
          [](fpStatus[b] = "failed"
                => \E i \in DOMAIN challenges :
                      /\ challenges[i].proof.blockNumber = b
                      /\ challenges[i].result = "verified")

\* C15 witness: batch 1 was finalized after an unfounded challenge, and
\* batch 2 failed on a challenge accepted inside its window and verified
\* after the window had closed.
C15_Witness ==
    /\ fpStatus[1] = "finalized"
    /\ fpStatus[2] = "failed"
    /\ Len(challenges) = 2
    /\ challenges[1].proof = [blockNumber |-> 1, invalidTransition |-> FALSE]
    /\ challenges[1].pc = "done"
    /\ challenges[2].proof = [blockNumber |-> 2, invalidTransition |-> TRUE]
    /\ challenges[2].pc = "done"
    /\ fpClock - PostedAt(2) >= challengePeriod

\* C16: the constructor throws 'Invalid chain configuration' and creates no
\* Chain (no config, no status) when the name length is outside 1..50, tps
\* outside 1000..100000, blockTime outside 0.1..60, validators outside
\* 1..1000 or an enum field is not an allowed value; every other
\* configuration is accepted and stored, with status inactive.
C16_ConstructorBounds ==
    lastCall.op = "constructor" =>
        LET c == lastCall.arg
            inRange ==
                /\ c.name \in 1..50
                /\ c.tps \in 1000..100000
                /\ c.consensus.blockTime \in 1..600
                /\ c.consensus.validators \in 1..1000
                /\ c.executionLayer \in {"ZK", "Optimistic"}
                /\ c.baseChain \in {"Ethereum", "Solana", "Binance"}
                /\ c.sequencer \in {"Decentralized", "Centralized", "Hybrid"}
        IN IF inRange
           THEN thrown = "none" /\ config = c /\ status.status = "inactive"
           ELSE /\ thrown = "Invalid chain configuration"
                /\ config = NoChain
                /\ status = NoChain

\* C16 witness: a configuration in range but for tps = 999, one below the
\* minimum, was refused.
C16_Witness ==
    /\ lastCall.op = "constructor"
    /\ lastCall.arg = [name |-> 50, executionLayer |-> "Optimistic",
                       baseChain |-> "Binance", sequencer |-> "Centralized",
                       tps |-> 999,
                       consensus |-> [blockTime |-> 600, validators |-> 1000]]
    /\ thrown = "Invalid chain configuration"
    /\ config = NoChain

\* C17: status.status is always one of inactive, deploying, active, error; a
\* new Chain is inactive with blockHeight, tps, latency and uptime 0; a
\* getStatus call and its return change neither status nor config; and a
\* pending getStatus can return whether or not a deploy is in flight.
C17_StatusReadOnly ==
    /\ [](config # NoChain
            => status.status \in {"inactive", "deploying", "active", "error"})
    /\ [][(lastCall'.op = "constructor" /\ thrown' = "none")
            => status' = [status |-> "inactive", blockHeight |-> 0, tps |-> 0,
                          latency |-> 0, uptime |-> 0]]_vars
    /\ [][reading' # reading => (status' = status /\ config' = config)]_vars
    /\ [](reading > 0 => ENABLED GetStatusReturns)

\* C17 witness: a getStatus returned 'deploying' while the deploy it saw
\* was still suspended.
C17_Witness ==
    /\ statusRead # Undefined
    /\ statusRead.status = "deploying"
    /\ status.status = "deploying"
    /\ deploying > 0
    /\ reading = 0

\* C18: the config a Chain holds always satisfies the schema; an
\* updateConfig whose merge of the update over the current config is valid
\* stores the merge, and one whose merge is invalid throws 'Invalid
\* configuration update' and leaves the config as it was.
C18_ConfigStaysValid ==
    /\ [](config # NoChain => validateChainConfig(getConfig))
    /\ [][(lastCall'.turn # lastCall.turn /\ lastCall'.op = "updateConfig")
            => LET merged == [k \in ConfigKeys |->
                                IF k \in DOMAIN lastCall'.arg
                                THEN lastCall'.arg[k] ELSE config[k]]
               IN IF validateChainConfig(merged)
                  THEN thrown' = "none" /\ config' = merged
                  ELSE thrown' = "Invalid configuration update"
                       /\ config' = config]_vars

\* C18 witness: after an accepted update of tps, an update of name and tps
\* with tps out of range was refused and the name kept.
C18_Witness ==
    /\ lastCall.op = "updateConfig"
    /\ DOMAIN lastCall.arg = {"name", "tps"}
    /\ thrown = "Invalid configuration update"
    /\ config.tps = 100000
    /\ config.name # 50

\* C19: status is active only when no deploy call is still in progress.
C19_ActiveOnlyWhenNoDeployRuns ==
    (config # NoChain /\ status.status = "active") => deploying = 0

\* C20: a deploy whose options fail validation (environment not testnet or
\* mainnet, or a non-boolean autoScale or monitoring) throws 'Invalid
\* deployment options' and leaves status, deploymentOptions and config
\* unchanged and starts no deployment.
C20_InvalidDeployChangesNothing ==
    [][(lastCall'.turn # lastCall.turn /\ lastCall'.op = "deploy"
          /\ ~(/\ lastCall'.arg.environment \in {"testnet", "mainnet"}
               /\ lastCall'.arg.autoScale \in {"true", "false"}
               /\ lastCall'.arg.monitoring \in {"true", "false"}))
         => /\ thrown' = "Invalid deployment options"
            /\ status' = status
            /\ deploymentOptions' = deploymentOptions
            /\ config' = config
            /\ deploying' = deploying]_vars

\* C20 witness: a deploy with invalid options was refused on a Chain that
\* an earlier deploy had made active.
C20_Witness ==
    /\ lastCall.op = "deploy"
    /\ thrown = "Invalid deployment options"
    /\ lastCall.arg.environment = "devnet"
    /\ status.status = "active"
    /\ deploymentOptions # Undefined
    /\ deploying = 0

====
